---- MODULE Spec2Model ----
(***************************************************************************)
(* Page-behaviour layer of the photo site (src/script.js and the earlier   *)
(* draft of the same script kept in src/unnamed/part_000).                 *)
(*                                                                         *)
(* Each immediately-invoked function of the script is one component with   *)
(* its own state: the hover spotlight and the focus mirror (they share the *)
(* cards' classes and the body's dim-mode class), the column equalizer,    *)
(* the lazy image loader and the theme toggle.  The two files differ only  *)
(* in the theme toggle; `variant` says which of the two is loaded.         *)
(*                                                                         *)
(* Every event handler and every timer callback is one action.  Browser    *)
(* inputs (pointer, focus, layout, intersection entries, storage failures, *)
(* the system colour scheme) are chosen nondeterministically.              *)
(***************************************************************************)
EXTENDS Integers, Sequences, FiniteSets, TLC

(***************************************************************************)
(* Bounds of the model.                                                    *)
(***************************************************************************)
NumCards == 2
MaxPending == 2
NumImgs == 2
NumLazy == 1
RectUnits == 2
MaxRect == 2
TickMs == 60
MaxBatch == 3

Cards == 1..NumCards
NoCard == 0
NoTimer == 0
TimerIds == 1..(MaxPending + 1)

VARIABLES
    \* ---- hover spotlight + focus mirror --------------------------------
    classes,      \* classes[c]: the subset of {"active","show-caption"} on card c
    dimMode,      \* body.classList contains "dim-mode"
    timer,        \* the hover module's `timer` handle (NoTimer = null)
    pending,      \* timeouts scheduled and neither fired nor cleared, oldest first
    inside,       \* cards whose box currently contains the pointer
    focused,      \* the card holding keyboard focus, or NoCard
    escapePhase,  \* history: "cleared"/"just" right after an Escape that did /
                  \* did not remove something, "later" from the next event on,
                  \* "none" from the next pointer-enter or focus-in on
    \* ---- column equalizer ----------------------------------------------
    equalize,     \* equalize[m]: the module's data-equalize attribute
    singleColumn, \* singleColumn[m]: gridTemplateColumns has one track
    rectHeight,   \* rectHeight[m][col]: bounding-box height of the column when it
                  \* carries no inline min-height, in 1/RectUnits of a pixel
    minHeight,    \* minHeight[m][col]: the column's inline style.minHeight
    resizeTimer,  \* the `resizeTimer` handle (NoTimer = null)
    resizePending,\* debounce timeouts scheduled and neither fired nor cleared
    remaining,    \* the countdown of images not yet settled
    loadL,        \* images that still carry the once-listener for "load"
    errorL,       \* images that still carry the once-listener for "error"
    fetching,     \* images with a fetch in flight (it ends in load or error)
    equalized,    \* history: the equalizer's last step ran equalizeAll
    before,       \* history: minHeight as that run of equalizeAll found it
    \* ---- lazy image loader ---------------------------------------------
    hasIO,        \* "IntersectionObserver" in window
    dataSrc,      \* dataSrc[i]: the image carries the data-src attribute
    src,          \* src[i]: the image's src
    observed,     \* images the observer observes
    ioQueue,      \* entries queued for the next observer callback
    lastIsect,    \* lastIsect[i]: isIntersecting of the last entry queued for i
    assigned,     \* assigned[i]: how many times img.src was assigned (history)
    \* ---- theme toggle --------------------------------------------------
    variant,      \* which file's theme block is loaded
    themeReady,   \* the block ran to its end: its listeners are attached
    dataTheme,    \* the root's data-theme attribute
    ariaPressed,  \* the control's aria-pressed attribute
    isDark,       \* body has class is-dark (part_000)
    isOn,         \* the control has class is-on (part_000)
    stored,       \* localStorage's value under STORAGE_KEY
    storageThrows,\* localStorage access throws at present
    sysDark,      \* (prefers-color-scheme: dark) matches
    mqlListens,   \* mql.addEventListener exists (part_000)
    tapRecent,    \* Date.now() - lastTap < 350 (part_000)
    hasTrack,     \* the control contains a .track element (script.js)
    reducedMotion,\* (prefers-reduced-motion: reduce) matches (script.js)
    transitioning,\* the track has class is-transitioning (script.js)
    pulseTimer,   \* pulseTrack.timer (script.js)
    pulsePending, \* pulse timeouts scheduled and neither fired nor cleared
    \* ---- history of the theme control (read by no handler) --------------
    lastOp,       \* the last event dispatched to the theme block
    prevTheme,    \* data-theme before that event
    escaped,      \* an exception left the last handler (or the block) uncaught
    writeFailed,  \* the last handler's storage access threw
    clickRun,     \* data-theme before each click of the current run of
                  \* consecutive clicks (the last two at most)
    toggled,      \* a click handler has run
    everStored,   \* a value has been present under STORAGE_KEY at some time
    wrote         \* the values setItem has stored under STORAGE_KEY

spotVars == <<classes, dimMode, timer, pending, inside, focused, escapePhase>>
layoutVars == <<equalize, singleColumn, rectHeight>>
styleVars == <<minHeight, equalized, before>>
eqVars == <<layoutVars, styleVars, resizeTimer, resizePending>>
imgVars == <<remaining, loadL, errorL, fetching>>
lazyVars == <<hasIO, dataSrc, src, observed, ioQueue, lastIsect, assigned>>

themeDom == <<dataTheme, ariaPressed, isDark, isOn>>
themeEnv == <<variant, themeReady, storageThrows, sysDark, mqlListens, hasTrack,
              reducedMotion>>
pulseVars == <<transitioning, pulseTimer, pulsePending>>
themeHist == <<lastOp, prevTheme, escaped, writeFailed, clickRun, toggled, everStored,
               wrote>>
themeVars == <<themeDom, themeEnv, stored, tapRecent, pulseVars, themeHist>>

vars == <<spotVars, eqVars, imgVars, lazyVars, themeVars>>

\* What the handlers of one component leave alone.
notSpotlight == <<eqVars, imgVars, lazyVars, themeVars>>
notEqualizer == <<spotVars, lazyVars, themeVars>>
notLazy == <<spotVars, eqVars, remaining, loadL, errorL, themeVars>>
notTheme == <<spotVars, eqVars, imgVars, lazyVars>>

(***************************************************************************)
(* Hover spotlight (script.js 5-48) and focus mirror (script.js 161-173).  *)
(***************************************************************************)
SpotClasses == {"active", "show-caption"}

\* The handles of the timeouts in queue q.
IdsOf(q) == {q[k].id : k \in 1..Len(q)}

\* setTimeout returns a handle no live timer carries.  A handle is reused
\* only when nothing refers to it any more (it is neither pending in q nor
\* held in the variable h), which no handler can observe.
FreshTimerId(q, h) == CHOOSE i \in TimerIds :
                          /\ i \notin IdsOf(q) \cup {h}
                          /\ \A j \in TimerIds : j \notin IdsOf(q) \cup {h} => i <= j

\* Mutant of ClearTimeout: nothing is dropped.
ClearNothing(q, h) == q

\* clearTimeout(h): the timeout with handle h, if still pending, is dropped.
ClearTimeout(q, h) == SelectSeq(q, LAMBDA t : t.id # h)

\* The pointer left card c: every entry of c still pending has been left
\* before its delay elapsed (`left` is history, no handler reads it).
MarkLeft(q, c) == [k \in 1..Len(q) |->
                     IF q[k].card = c THEN [q[k] EXCEPT !.left = TRUE] ELSE q[k]]

\* An event other than Escape, pointer-enter and focus-in was dispatched.
AfterEscape(phase) == IF phase = "none" THEN "none" ELSE "later"

InitSpotlight ==
    /\ escapePhase = "none"
    /\ classes = [c \in Cards |-> {}]
    /\ dimMode = FALSE
    /\ timer = NoTimer
    /\ pending = <<>>
    /\ inside = {}
    /\ focused = NoCard

\* card.addEventListener("mouseenter", ...): schedule the reveal.
MouseEnter(c) ==
    /\ c \notin inside
    /\ Len(pending) < MaxPending
    /\ inside' = inside \cup {c}
    /\ timer' = FreshTimerId(pending, timer)
    /\ pending' = Append(pending, [id |-> FreshTimerId(pending, timer),
                                   card |-> c, left |-> FALSE])
    /\ escapePhase' = "none"
    /\ UNCHANGED <<classes, dimMode, focused>>
    /\ UNCHANGED notSpotlight

\* The timeout callback of mouseenter.  All reveals share HOVER_DELAY, so
\* timeouts run in the order they were scheduled.
RevealFire ==
    /\ pending # <<>>
    /\ LET t == Head(pending) IN
         /\ dimMode' = TRUE
         /\ classes' = [c \in Cards |->
                          IF c = t.card THEN SpotClasses ELSE classes[c] \ SpotClasses]
    /\ pending' = Tail(pending)
    /\ escapePhase' = AfterEscape(escapePhase)
    /\ UNCHANGED <<timer, inside, focused>>
    /\ UNCHANGED notSpotlight

\* const reset = () => {...}: the body shared by the four reset listeners.
ResetBody(c, q) ==
    /\ pending' = ClearTimeout(q, timer)
    /\ timer' = NoTimer
    /\ classes' = [classes EXCEPT ![c] = @ \ SpotClasses]
    /\ dimMode' = FALSE
    /\ escapePhase' = AfterEscape(escapePhase)

MouseLeave(c) ==
    /\ c \in inside
    /\ inside' = inside \ {c}
    /\ ResetBody(c, MarkLeft(pending, c))
    /\ UNCHANGED focused
    /\ UNCHANGED notSpotlight

\* click, touchend, touchcancel on the card.
ResetEvents == {"click", "touchend", "touchcancel"}

CardReset(c, ev) ==
    /\ ev \in ResetEvents
    /\ ResetBody(c, pending)
    /\ UNCHANGED <<inside, focused>>
    /\ UNCHANGED notSpotlight

Keys == {"Escape", "Tab"}

\* Mutant of KeyDown: Escape clears the cards and leaves dim-mode.
KeyDownKeepsDim(key) ==
    /\ key \in Keys
    /\ IF key = "Escape"
         THEN /\ classes' = [c \in Cards |-> classes[c] \ SpotClasses]
              /\ UNCHANGED dimMode
              /\ escapePhase' = IF dimMode \/ \E c \in Cards : classes[c] # {}
                                  THEN "cleared" ELSE "just"
         ELSE /\ UNCHANGED <<classes, dimMode>>
              /\ escapePhase' = AfterEscape(escapePhase)
    /\ UNCHANGED <<timer, pending, inside, focused>>
    /\ UNCHANGED notSpotlight

\* document.addEventListener("keydown", ...)
KeyDown(key) ==
    /\ key \in Keys
    /\ IF key = "Escape"
         THEN /\ classes' = [c \in Cards |-> classes[c] \ SpotClasses]
              /\ dimMode' = FALSE
              /\ escapePhase' = IF dimMode \/ \E c \in Cards : classes[c] # {}
                                  THEN "cleared" ELSE "just"
         ELSE /\ UNCHANGED <<classes, dimMode>>
              /\ escapePhase' = AfterEscape(escapePhase)
    /\ UNCHANGED <<timer, pending, inside, focused>>
    /\ UNCHANGED notSpotlight

\* Focus moves one card at a time: focusout of the old card is dispatched
\* before focusin of the new one.
FocusIn(c) ==
    /\ focused = NoCard
    /\ focused' = c
    /\ classes' = [classes EXCEPT ![c] = @ \cup SpotClasses]
    /\ dimMode' = TRUE
    /\ escapePhase' = "none"
    /\ UNCHANGED <<timer, pending, inside>>
    /\ UNCHANGED notSpotlight

FocusOut(c) ==
    /\ focused = c
    /\ focused' = NoCard
    /\ classes' = [classes EXCEPT ![c] = @ \ SpotClasses]
    /\ dimMode' = FALSE
    /\ escapePhase' = AfterEscape(escapePhase)
    /\ UNCHANGED <<timer, pending, inside>>
    /\ UNCHANGED notSpotlight

NextSpotlight ==
    \/ \E c \in Cards : MouseEnter(c)
    \/ RevealFire
    \/ \E c \in Cards : MouseLeave(c)
    \/ \E c \in Cards, ev \in ResetEvents : CardReset(c, ev)
    \/ \E key \in Keys : KeyDown(key)
    \/ \E c \in Cards : FocusIn(c)
    \/ \E c \in Cards : FocusOut(c)

(***************************************************************************)
(* Column equalizer (script.js 63-155).                                    *)
(***************************************************************************)
Modules == {"module"}
Imgs == 1..NumImgs
\* The images of the page that may carry data-src.
LazyImgs == {i \in Imgs : i <= NumLazy}
Cols == {"left", "right"}
NoAttr == "<null>"
AttrValues == {NoAttr, "left", "LEFT", "right"}
RectHeights == 0..MaxRect

\* String.prototype.toLowerCase on the attribute values of the model.
ToLowerCase(s) == IF s = "LEFT" THEN "left" ELSE s

\* Mutant of columnHeight: Math.floor in place of Math.round.
columnHeightFloor(h) == h \div RectUnits

\* columnHeight(col): Math.round(rect.height), the height being h/RectUnits
\* pixels.  Math.round rounds a half upwards.
columnHeight(h) == (2 * h + RectUnits) \div (2 * RectUnits)

\* h + "px"
Px(h) == ToString(h) \o "px"

\* Mutant of clearHeights: the min-heights are left as they are.
clearHeightsNothing(style) == style

\* clearHeights(mod): every column's style.minHeight becomes "".
clearHeights(style) == [c \in Cols |-> ""]

\* equalizeModule(mod) as a function of what it reads: the data-equalize
\* attribute, the single-column test, the columns' heights and the columns'
\* inline min-heights.  The result is the columns' inline min-heights.
Equalized(attr, single, rect, style) ==
    LET mode == ToLowerCase(IF attr = NoAttr THEN "right" ELSE attr)
        measure == IF mode = "left" THEN "left" ELSE "right"
        stretch == IF mode = "left" THEN "right" ELSE "left"
        h == columnHeight(rect[measure])
    IN  IF single
          THEN clearHeights(style)
          ELSE IF h > 0
                 THEN [clearHeights(style) EXCEPT ![stretch] = Px(h)]
                 ELSE clearHeights(style)

equalizeModule(m) ==
    Equalized(equalize[m], singleColumn[m], rectHeight[m], minHeight[m])

\* equalizeAll(): modules.forEach(equalizeModule)
equalizeAll ==
    /\ minHeight' = [m \in Modules |-> equalizeModule(m)]
    /\ equalized' = TRUE
    /\ before' = minHeight

\* A step of the equalizer that does not run equalizeAll.
NotEqualized == minHeight' = minHeight /\ equalized' = FALSE /\ before' = before

InitEqualizer ==
    /\ equalize \in [Modules -> AttrValues]
    /\ singleColumn \in [Modules -> BOOLEAN]
    /\ rectHeight \in [Modules -> [Cols -> RectHeights]]
    /\ resizeTimer = NoTimer
    /\ resizePending = <<>>
    \* imgs.forEach: a complete image counts down at once, any other gets
    \* the two once-listeners; equalizeAll has run if nothing is left.
    /\ \E complete \in SUBSET Imgs :
         /\ remaining = NumImgs - Cardinality(complete)
         /\ loadL = Imgs \ complete
         /\ errorL = Imgs \ complete
         /\ minHeight = [m \in Modules |->
               IF complete = Imgs
                 THEN Equalized(equalize[m], singleColumn[m], rectHeight[m],
                                [c \in Cols |-> ""])
                 ELSE [c \in Cols |-> ""]]
         /\ equalized = (complete = Imgs)
    /\ before = [m \in Modules |-> [c \in Cols |-> ""]]

\* The browser lays the page out again: a module changes between one and
\* two columns, or a column's height changes.
Relayout(m) ==
    /\ \/ /\ singleColumn' = [singleColumn EXCEPT ![m] = ~@]
          /\ UNCHANGED rectHeight
       \/ /\ \E c \in Cols, h \in RectHeights :
               /\ h # rectHeight[m][c]
               /\ rectHeight' = [rectHeight EXCEPT ![m][c] = h]
          /\ UNCHANGED singleColumn
    /\ NotEqualized
    /\ UNCHANGED <<equalize, resizeTimer, resizePending, imgVars>>
    /\ UNCHANGED notEqualizer

\* The page changes a module's data-equalize attribute.
SetEqualize(m, v) ==
    /\ v \in AttrValues
    /\ v # equalize[m]
    /\ equalize' = [equalize EXCEPT ![m] = v]
    /\ NotEqualized
    /\ UNCHANGED <<singleColumn, rectHeight, resizeTimer, resizePending, imgVars>>
    /\ UNCHANGED notEqualizer

WindowEvents == {"resize", "orientationchange", "load"}

\* The delay of the debounce timeout, in milliseconds.
DebounceMs == 120

\* The timeouts of queue q after ms milliseconds.
Elapse(q, ms) == [k \in 1..Len(q) |->
                    [q[k] EXCEPT !.due = IF @ > ms THEN @ - ms ELSE 0]]

\* debouncedEqualize(), the listener of the three window events.
debouncedEqualize(ev) ==
    /\ ev \in WindowEvents
    /\ LET q == ClearTimeout(resizePending, resizeTimer)
           id == FreshTimerId(resizePending, resizeTimer)
       IN  /\ Len(q) < MaxPending
           /\ resizePending' = Append(q, [id |-> id, due |-> DebounceMs])
           /\ resizeTimer' = id
    /\ NotEqualized
    /\ UNCHANGED <<layoutVars, imgVars>>
    /\ UNCHANGED notEqualizer

\* Time passes while a debounce timeout is pending.  A timeout that is due
\* runs before more time passes.
TimePasses ==
    /\ resizePending # <<>>
    /\ \A k \in 1..Len(resizePending) : resizePending[k].due > 0
    /\ resizePending' = Elapse(resizePending, TickMs)
    /\ UNCHANGED <<layoutVars, styleVars, resizeTimer, imgVars>>
    /\ UNCHANGED notEqualizer

\* The debounce timeout runs equalizeAll when its delay has elapsed.
ResizeFire ==
    /\ resizePending # <<>>
    /\ Head(resizePending).due = 0
    /\ resizePending' = Tail(resizePending)
    /\ equalizeAll
    /\ UNCHANGED <<layoutVars, resizeTimer, imgVars>>
    /\ UNCHANGED notEqualizer

\* The body of the "load" and "error" once-listeners.
Countdown ==
    /\ remaining' = remaining - 1
    /\ IF remaining - 1 = 0 THEN equalizeAll ELSE NotEqualized

\* An image's fetch ends with "load".
ImgLoad(i) ==
    /\ i \in fetching
    /\ fetching' = fetching \ {i}
    /\ IF i \in loadL
         THEN loadL' = loadL \ {i} /\ Countdown
         ELSE UNCHANGED <<loadL, remaining, styleVars>>
    /\ UNCHANGED <<layoutVars, resizeTimer, resizePending, errorL>>
    /\ UNCHANGED notEqualizer

\* Mutant of ImgError: a failed fetch is not counted.
ImgErrorNoCount(i) ==
    /\ i \in fetching
    /\ fetching' = fetching \ {i}
    /\ UNCHANGED <<errorL, remaining, styleVars>>
    /\ UNCHANGED <<layoutVars, resizeTimer, resizePending, loadL>>
    /\ UNCHANGED notEqualizer

\* An image's fetch ends with "error".
ImgError(i) ==
    /\ i \in fetching
    /\ fetching' = fetching \ {i}
    /\ IF i \in errorL
         THEN errorL' = errorL \ {i} /\ Countdown
         ELSE UNCHANGED <<errorL, remaining, styleVars>>
    /\ UNCHANGED <<layoutVars, resizeTimer, resizePending, loadL>>
    /\ UNCHANGED notEqualizer

(***************************************************************************)
(* Lazy image loader (script.js 179-196).                                  *)
(***************************************************************************)
NoSrc == ""
PhotoSrc == "photo.jpg"
PlaceholderSrc == "placeholder.gif"

\* img.dataset.src as img.src receives it: the attribute's value, or the
\* string "undefined" when the attribute is gone.
DatasetSrc(has) == IF has THEN PhotoSrc ELSE "undefined"

\* The images part of the state an observer callback reads and writes.
LazyState == [src |-> src, dataSrc |-> dataSrc, observed |-> observed,
              assigned |-> assigned, fetching |-> fetching]

\* The callback's body for one entry.  Assigning img.src starts a fetch.
ObserveEntry(st, e) ==
    IF e.isIntersecting
      THEN [st EXCEPT !.src[e.target] = DatasetSrc(st.dataSrc[e.target]),
                      !.assigned[e.target] = @ + 1,
                      !.fetching = @ \cup {e.target},
                      !.dataSrc[e.target] = FALSE,
                      !.observed = @ \ {e.target}]
      ELSE st

\* entries.forEach(...)
RECURSIVE ObserveEntries(_, _)
ObserveEntries(st, entries) ==
    IF entries = <<>> THEN st
    ELSE ObserveEntries(ObserveEntry(st, Head(entries)), Tail(entries))

InitLazy ==
    /\ hasIO \in BOOLEAN
    /\ dataSrc \in [Imgs -> BOOLEAN]
    /\ \A i \in Imgs : dataSrc[i] => i \in LazyImgs
    /\ ioQueue = <<>>
    /\ lastIsect = [i \in Imgs |-> "none"]
    /\ IF hasIO
         \* an image without src is complete: a deferred image the equalizer
         \* found incomplete is still loading a placeholder
         THEN /\ src = [i \in Imgs |->
                          IF dataSrc[i]
                            THEN IF i \in loadL THEN PlaceholderSrc ELSE NoSrc
                            ELSE PhotoSrc]
              /\ observed = {i \in Imgs : dataSrc[i]}
              /\ assigned = [i \in Imgs |-> 0]
              /\ fetching = loadL
         \* no IntersectionObserver: every deferred source is assigned at once
         ELSE /\ src = [i \in Imgs |->
                          IF dataSrc[i] THEN DatasetSrc(dataSrc[i]) ELSE PhotoSrc]
              /\ observed = {}
              /\ assigned = [i \in Imgs |-> IF dataSrc[i] THEN 1 ELSE 0]
              /\ fetching = loadL \cup {i \in Imgs : dataSrc[i]}

\* The browser queues an entry for an observed image: the first observation
\* of a target always does, later ones when isIntersecting changes.
QueueEntry(i, b) ==
    /\ hasIO
    /\ i \in observed
    /\ Len(ioQueue) < MaxBatch
    /\ lastIsect[i] # (IF b THEN "in" ELSE "out")
    /\ lastIsect' = [lastIsect EXCEPT ![i] = IF b THEN "in" ELSE "out"]
    /\ ioQueue' = Append(ioQueue, [target |-> i, isIntersecting |-> b])
    /\ UNCHANGED <<hasIO, dataSrc, src, observed, assigned, fetching>>
    /\ UNCHANGED notLazy

\* The observer callback runs on everything queued since the last run.
IOCallback ==
    /\ ioQueue # <<>>
    /\ LET st == ObserveEntries(LazyState, ioQueue) IN
         /\ src' = st.src
         /\ dataSrc' = st.dataSrc
         /\ observed' = st.observed
         /\ assigned' = st.assigned
         /\ fetching' = st.fetching
    /\ ioQueue' = <<>>
    /\ UNCHANGED <<hasIO, lastIsect>>
    /\ UNCHANGED notLazy

NextLazy ==
    \/ \E i \in Imgs, b \in BOOLEAN : QueueEntry(i, b)
    \/ IOCallback

(***************************************************************************)
(* Theme toggle: script.js 201-248 and part_000 204-259.                   *)
(***************************************************************************)
Variants == {"script.js", "part_000"}
NoValue == "<null>"
Themes == {"light", "dark"}
StoredValues == {NoValue, "light", "dark", "auto"}

\* mql.matches ? 'dark' : 'light'
SystemTheme(dark) == IF dark THEN "dark" ELSE "light"

\* Mutant of BoolString: the attribute is never "true".
BoolStringFalse(b) == "false"

\* String(isDark)
BoolString(b) == IF b THEN "true" ELSE "false"

\* Mutant of Flip: a toggle with a third value.
FlipToAuto(current) == IF current = "dark" THEN "light"
                       ELSE IF current = "light" THEN "auto" ELSE "dark"

\* Mutant of Flip: the toggle always chooses dark.
FlipAlwaysDark(current) == "dark"

\* current === 'dark' ? 'light' : 'dark'
Flip(current) == IF current = "dark" THEN "light" ELSE "dark"

\* script.js applyTheme(mode, persist): the DOM part.
ApplyScript(mode) ==
    LET normalized == IF mode = "dark" THEN "dark" ELSE "light" IN
    /\ dataTheme' = normalized
    /\ ariaPressed' = BoolString(normalized = "dark")
    /\ UNCHANGED <<isDark, isOn>>

\* part_000 applyTheme(mode, {save}): the DOM part.
ApplyPart(mode) ==
    /\ dataTheme' = mode
    /\ isDark' = (mode = "dark")
    /\ ariaPressed' = BoolString(mode = "dark")
    /\ isOn' = (mode = "dark")

\* script.js 223-231: the stored value, "light" when invalid or unreadable.
InitialScript(saved, throws) ==
    IF throws THEN "light"
    ELSE IF saved = "dark" \/ saved = "light" THEN saved ELSE "light"

\* part_000 getInitialTheme(), for a readable store.
getInitialTheme(saved, dark) ==
    IF saved = "light" \/ saved = "dark" THEN saved ELSE SystemTheme(dark)

InitTheme ==
    /\ variant \in Variants
    /\ stored \in StoredValues
    /\ storageThrows \in BOOLEAN
    /\ sysDark \in BOOLEAN
    /\ mqlListens \in BOOLEAN
    /\ hasTrack \in BOOLEAN
    /\ reducedMotion \in BOOLEAN
    /\ tapRecent = FALSE
    /\ transitioning = FALSE
    /\ pulseTimer = NoTimer
    /\ pulsePending = <<>>
    /\ IF variant = "script.js"
         THEN /\ dataTheme = InitialScript(stored, storageThrows)
              /\ ariaPressed = BoolString(dataTheme = "dark")
              /\ themeReady = TRUE
         \* part_000: getItem is not guarded, a throw ends the block
         ELSE IF storageThrows
           THEN /\ dataTheme = NoValue
                /\ ariaPressed = NoValue
                /\ themeReady = FALSE
           ELSE /\ dataTheme = getInitialTheme(stored, sysDark)
                /\ ariaPressed = BoolString(dataTheme = "dark")
                /\ themeReady = TRUE
    /\ isDark = (variant = "part_000" /\ dataTheme = "dark")
    /\ isOn = (variant = "part_000" /\ dataTheme = "dark")
    /\ lastOp = "init"
    /\ prevTheme = NoValue
    /\ escaped = ~themeReady
    /\ writeFailed = storageThrows
    /\ clickRun = <<>>
    /\ toggled = FALSE
    /\ everStored = (stored # NoValue)
    /\ wrote = {}

\* The last two elements of a run of clicks.
LastTwo(q) == IF Len(q) > 2 THEN Tail(q) ELSE q

\* Mutant of pulseTrack: the reduced-motion preference is not consulted.
pulseTrackAlways ==
    IF ~hasTrack
      THEN UNCHANGED pulseVars
      ELSE LET q == ClearTimeout(pulsePending, pulseTimer)
               id == FreshTimerId(pulsePending, pulseTimer)
           IN  /\ transitioning' = TRUE
               /\ pulsePending' = Append(q, [id |-> id])
               /\ pulseTimer' = id

\* pulseTrack() of script.js.
pulseTrack ==
    IF ~hasTrack \/ reducedMotion
      THEN UNCHANGED pulseVars
      ELSE LET q == ClearTimeout(pulsePending, pulseTimer)
               id == FreshTimerId(pulsePending, pulseTimer)
           IN  /\ transitioning' = TRUE
               /\ pulsePending' = Append(q, [id |-> id])
               /\ pulseTimer' = id

\* A click on the theme control.
ClickScript ==
    /\ ApplyScript(Flip(dataTheme))
    /\ stored' = IF storageThrows THEN stored ELSE Flip(dataTheme)
    /\ writeFailed' = storageThrows
    /\ escaped' = FALSE
    /\ pulseTrack

ClickPart ==
    LET current == IF dataTheme = NoValue THEN "light" ELSE dataTheme IN
    /\ ApplyPart(Flip(current))
    /\ stored' = IF storageThrows THEN stored ELSE Flip(current)
    /\ writeFailed' = storageThrows
    /\ escaped' = storageThrows
    /\ UNCHANGED pulseVars

Click ==
    /\ lastOp' = "click"
    /\ prevTheme' = dataTheme
    /\ clickRun' = LastTwo(Append(clickRun, dataTheme))
    /\ IF themeReady
         THEN /\ IF variant = "script.js" THEN ClickScript ELSE ClickPart
              /\ toggled' = TRUE
              /\ everStored' = (everStored \/ ~storageThrows)
              /\ wrote' = IF storageThrows THEN wrote ELSE wrote \cup {stored'}
         ELSE UNCHANGED <<themeDom, stored, pulseVars, escaped, writeFailed,
                          toggled, everStored, wrote>>
    /\ UNCHANGED <<themeEnv, tapRecent>>
    /\ UNCHANGED notTheme

\* The pulse timeout of script.js.
PulseFire ==
    /\ pulsePending # <<>>
    /\ pulsePending' = Tail(pulsePending)
    /\ transitioning' = FALSE
    /\ UNCHANGED <<themeDom, themeEnv, stored, tapRecent, pulseTimer, themeHist>>
    /\ UNCHANGED notTheme

\* The system colour scheme changes; part_000 listens for it.
SystemChange ==
    /\ sysDark' = ~sysDark
    /\ lastOp' = "change"
    /\ prevTheme' = dataTheme
    /\ clickRun' = <<>>
    /\ IF variant = "part_000" /\ themeReady /\ mqlListens
         THEN /\ escaped' = storageThrows
              /\ writeFailed' = storageThrows
              /\ IF ~storageThrows /\ stored = NoValue
                   THEN ApplyPart(SystemTheme(sysDark'))
                   ELSE UNCHANGED themeDom
         ELSE UNCHANGED <<themeDom, escaped, writeFailed>>
    /\ UNCHANGED <<variant, themeReady, storageThrows, mqlListens, hasTrack,
                   reducedMotion, stored, tapRecent, pulseVars, toggled, everStored,
                   wrote>>
    /\ UNCHANGED notTheme

\* touchend on the control; part_000 treats two taps within 350 ms as
\* "forget my choice".
TouchEnd ==
    /\ lastOp' = "touchend"
    /\ prevTheme' = dataTheme
    /\ clickRun' = <<>>
    /\ IF variant = "part_000" /\ themeReady
         THEN IF tapRecent
                THEN IF storageThrows
                       \* removeItem throws: nothing after it runs
                       THEN /\ escaped' = TRUE
                            /\ writeFailed' = TRUE
                            /\ UNCHANGED <<themeDom, stored, tapRecent>>
                       ELSE /\ stored' = NoValue
                            /\ ApplyPart(SystemTheme(sysDark))
                            /\ tapRecent' = TRUE
                            /\ escaped' = FALSE
                            /\ writeFailed' = FALSE
                ELSE /\ tapRecent' = TRUE
                     /\ escaped' = FALSE
                     /\ writeFailed' = FALSE
                     /\ UNCHANGED <<themeDom, stored>>
         ELSE UNCHANGED <<themeDom, stored, tapRecent, escaped, writeFailed>>
    /\ UNCHANGED <<themeEnv, pulseVars, toggled, everStored, wrote>>
    /\ UNCHANGED notTheme

\* 350 ms pass without a tap.
TapWindowEnds ==
    /\ tapRecent
    /\ tapRecent' = FALSE
    /\ UNCHANGED <<themeDom, themeEnv, stored, pulseVars, themeHist>>
    /\ UNCHANGED notTheme

\* The store starts or stops throwing (quota, privacy mode, site settings).
StorageChange ==
    /\ storageThrows' = ~storageThrows
    /\ UNCHANGED <<themeDom, variant, themeReady, sysDark, mqlListens, hasTrack,
                   reducedMotion, stored, tapRecent, pulseVars, themeHist>>
    /\ UNCHANGED notTheme

\* The reduced-motion preference changes.
MotionChange ==
    /\ reducedMotion' = ~reducedMotion
    /\ UNCHANGED <<themeDom, variant, themeReady, storageThrows, sysDark,
                   mqlListens, hasTrack, stored, tapRecent, pulseVars, themeHist>>
    /\ UNCHANGED notTheme

NextTheme ==
    \/ Click
    \/ PulseFire
    \/ SystemChange
    \/ TouchEnd
    \/ TapWindowEnds
    \/ StorageChange
    \/ MotionChange

NextEqualizer ==
    \/ \E m \in Modules : Relayout(m)
    \/ \E m \in Modules, v \in AttrValues : SetEqualize(m, v)
    \/ \E ev \in WindowEvents : debouncedEqualize(ev)
    \/ TimePasses
    \/ ResizeFire

NextImages ==
    \/ \E i \in Imgs : ImgLoad(i)
    \/ \E i \in Imgs : ImgError(i)

(***************************************************************************)
(* Specifications.  The components share no state except the images'       *)
(* fetches, so each is explored with the others at rest.                   *)
(***************************************************************************)
Init == InitSpotlight /\ InitEqualizer /\ InitLazy /\ InitTheme

\* One initial state of each component, for the runs that explore another.
RestLayout ==
    /\ equalize = [m \in Modules |-> NoAttr]
    /\ singleColumn = [m \in Modules |-> FALSE]
    /\ rectHeight = [m \in Modules |-> [c \in Cols |-> 0]]

RestEqualizer == RestLayout /\ remaining = 0 /\ InitEqualizer

RestLazy ==
    /\ hasIO = TRUE
    /\ dataSrc = [i \in Imgs |-> FALSE]
    /\ InitLazy

RestTheme ==
    /\ variant = "script.js"
    /\ stored = NoValue
    /\ storageThrows = FALSE
    /\ sysDark = FALSE
    /\ mqlListens = TRUE
    /\ hasTrack = TRUE
    /\ reducedMotion = FALSE
    /\ InitTheme

Next == NextSpotlight \/ NextEqualizer \/ NextImages \/ NextLazy \/ NextTheme

Spec == Init /\ [][Next]_vars

\* The hover spotlight and the focus mirror.
SpotlightInit == InitSpotlight /\ RestEqualizer /\ RestLazy /\ RestTheme
SpecSpotlight == SpotlightInit /\ [][NextSpotlight]_vars

\* The equalizer: layout changes, the debounce and the image countdown.
EqualizerInit == InitSpotlight /\ InitEqualizer /\ RestLazy /\ RestTheme
SpecEqualizer == EqualizerInit /\ [][NextEqualizer \/ NextImages]_vars

\* The debounce alone, for every layout it can run on.
NextDebounce ==
    \/ \E ev \in WindowEvents : debouncedEqualize(ev)
    \/ TimePasses
    \/ ResizeFire
SpecDebounce == EqualizerInit /\ [][NextDebounce]_vars

\* The lazy loader and the fetches it starts.
LazyInit == InitSpotlight /\ RestLayout /\ InitEqualizer /\ InitLazy /\ RestTheme
SpecLazy == LazyInit /\ [][NextLazy \/ NextImages]_vars

\* The same, a fetch in flight ending at some time in "load" or "error".
SpecLazyFair ==
    /\ LazyInit
    /\ [][NextLazy \/ NextImages]_vars
    /\ WF_vars(NextImages)

\* The theme toggle, in both variants.
ThemeInit == InitSpotlight /\ RestEqualizer /\ RestLazy /\ InitTheme
SpecTheme == ThemeInit /\ [][NextTheme]_vars

\* The same, a pending pulse timeout running at some time.
SpecThemeFair == ThemeInit /\ [][NextTheme]_vars /\ WF_vars(PulseFire)

(***************************************************************************)
(* Properties.                                                             *)
(***************************************************************************)
Active == {c \in Cards : "active" \in classes[c]}

\* C1: at most one card carries the class "active", whatever the
\* interleaving of pointer, timer, reset, Escape and focus events.
C1_AtMostOneActive == Cardinality(Active) <= 1

\* C2: a reveal whose card the pointer has left before the delay elapsed
\* never runs: its entry never applies active/show-caption/dim-mode, also
\* when other cards were entered between the enter and the leave.
C2_LeftEntryNeverReveals ==
    [][(pending # <<>> /\ Head(pending).left) => ~RevealFire]_vars

\* C3: reveal timers never stack: at most one delayed activation is pending
\* in the hover module at any instant.
C3_OnePendingReveal == Len(pending) <= 1

ChangeHeard ==
    /\ lastOp = "change"
    /\ themeReady
    /\ ~writeFailed
    /\ variant = "part_000" => mqlListens

\* C5: while no preference has ever been stored, a change of the system
\* colour scheme re-applies the theme to match it; once the user has toggled,
\* a later change of the system colour scheme leaves the theme as it was.
C5_SystemFollowedUntilToggle ==
    ChangeHeard =>
        /\ ~everStored => dataTheme = SystemTheme(sysDark)
        /\ toggled => dataTheme = prevTheme

\* C6: a storage failure is caught inside the theme component: no exception
\* leaves its initialization or a handler, and a click still flips
\* data-theme and aria-pressed.
C6_StorageFailureCaught ==
    writeFailed =>
        /\ ~escaped
        /\ lastOp = "click" =>
             /\ dataTheme = Flip(prevTheme)
             /\ ariaPressed = BoolString(dataTheme = "dark")

\* C7: a stored value that is neither "light" nor "dark" is treated as an
\* absent key: initialization resolves the theme as if nothing were stored,
\* and until the user toggles the system colour scheme is followed.
C7_InvalidStoredIsAbsent ==
    (stored \notin Themes \cup {NoValue} /\ ~toggled /\ themeReady /\ ~writeFailed) =>
        /\ lastOp = "init" =>
             dataTheme = (IF variant = "script.js" THEN "light"
                          ELSE SystemTheme(sysDark))
        /\ (ChangeHeard /\ variant = "part_000") => dataTheme = SystemTheme(sysDark)

\* The column the data-equalize attribute configures as measured, and its
\* sibling.
MeasuredCol(m) == IF equalize[m] \in {"left", "LEFT"} THEN "left" ELSE "right"
SiblingCol(m) == IF MeasuredCol(m) = "left" THEN "right" ELSE "left"

\* The whole number of pixels nearest to the measured column's height
\* (a half counts upwards).
RoundedHeight(m) ==
    CHOOSE r \in 0..(MaxRect + 1) :
        LET x == rectHeight[m][MeasuredCol(m)] IN
        /\ RectUnits * (2 * r - 1) <= 2 * x
        /\ 2 * x < RectUnits * (2 * r + 1)

\* C8: after equalizeModule ran on a group: with two columns and a positive
\* rounded height h of the measured column, the sibling's inline min-height
\* is h pixels; with a single column, neither column has an inline
\* min-height.
C8_EqualizedHeights ==
    equalized => \A m \in Modules :
        /\ (~singleColumn[m] /\ RoundedHeight(m) > 0) =>
               minHeight[m][SiblingCol(m)] = Px(RoundedHeight(m))
        /\ singleColumn[m] => \A c \in Cols : minHeight[m][c] = ""

\* C8 witness: a two-column group was equalized whose measured height is
\* not a whole number of pixels and rounds upwards, and the sibling got it.
C8_Witness ==
    \E m \in Modules :
        /\ equalized /\ ~singleColumn[m]
        /\ rectHeight[m][MeasuredCol(m)] % RectUnits # 0
        /\ RoundedHeight(m) > rectHeight[m][MeasuredCol(m)] \div RectUnits
        /\ minHeight[m][SiblingCol(m)] # ""

\* C9: after an equalization the measured column carries no min-height,
\* whatever an earlier run (with another direction or rendering) left on it;
\* only its sibling can carry one.
C9_MeasuredNeverResized ==
    equalized => \A m \in Modules : minHeight[m][MeasuredCol(m)] = ""

\* C9 witness: the run found a min-height on the column now measured (left
\* by a run with the other direction), cleared it and stretched the sibling.
C9_Witness ==
    \E m \in Modules :
        /\ equalized
        /\ before[m][MeasuredCol(m)] # ""
        /\ minHeight[m][MeasuredCol(m)] = ""
        /\ minHeight[m][SiblingCol(m)] # ""

\* C10: with intersection observation available, a deferred image's source
\* is assigned only with its data-src removed and the image unobserved in
\* the same step, and over any sequence of callbacks it is assigned at most
\* once.
C10_SourceAssignedOnce ==
    hasIO => \A i \in Imgs :
        /\ assigned[i] <= 1
        /\ assigned[i] = 1 => (~dataSrc[i] /\ i \notin observed /\ src[i] = PhotoSrc)

\* The tracked images (incomplete at initialization) that have fired
\* neither "load" nor "error" yet: both once-listeners are still attached.
Unsettled == loadL \cap errorL

\* C11: when every tracked image's fetch ends at some time, in "load" or in
\* "error", the countdown reaches zero and equalizeAll runs: no mix of
\* successes and failures leaves the countdown above zero for ever.
C11_CountdownCompletes == <>(remaining = 0 /\ equalized)

\* A load and an error between them brought the countdown to zero.
C11_Witness ==
    /\ remaining = 0
    /\ equalized
    /\ \E i, j \in Imgs : /\ i \in errorL /\ i \notin loadL
                          /\ j \in loadL /\ j \notin errorL

\* C12: right after initialization the applied theme is the stored
\* preference when one is present and valid, and otherwise the system
\* colour scheme of that moment (the store being readable).
C12_InitialTheme ==
    (lastOp = "init" /\ ~writeFailed) =>
        dataTheme = IF stored \in Themes THEN stored ELSE SystemTheme(sysDark)

\* No card is spotlit and the page is not dimmed.
SpotlightCleared ==
    /\ \A c \in Cards : classes[c] \cap SpotClasses = {}
    /\ ~dimMode

\* C13: immediately after an Escape key press, whatever the state it was
\* pressed in, no card carries "active" or "show-caption" and the body
\* does not carry "dim-mode".
C13_EscapeClearsAll == escapePhase \in {"just", "cleared"} => SpotlightCleared

\* Escape was pressed while the focused card was spotlit and the pointer
\* was over a card.
C13_Witness ==
    /\ escapePhase = "cleared"
    /\ focused # NoCard
    /\ inside # {}

\* C16: the body carries "dim-mode" if and only if some card carries
\* "active", in every reachable state.
C16_DimIffActive == dimMode <=> (Active # {})

\* C18: after an Escape key press the spotlight stays cleared until a new
\* pointer-enter or focus-in: a reveal that was pending when Escape was
\* pressed does not fire later.
C18_ClearedUntilNewEntry == escapePhase # "none" => SpotlightCleared

\* C14: the window events are debounced.  At most one recomputation is
\* pending at any instant; a new event cancels the pending one and starts
\* the delay again; equalizeAll runs from the debounce only as the one
\* pending timeout, DebounceMs after the last event of a burst.
C14_Debounced ==
    [][/\ Len(resizePending') <= 1
       /\ (\E ev \in WindowEvents : debouncedEqualize(ev)) =>
              resizePending' = <<[id |-> resizeTimer', due |-> DebounceMs]>>
       /\ ResizeFire =>
              /\ resizePending = <<[id |-> resizeTimer, due |-> 0]>>
              /\ resizePending' = <<>>]_vars

\* The timeout of the second event of a burst has run equalizeAll: the
\* first event's timeout was cancelled, nothing is pending any more.
C14_Witness ==
    /\ equalized
    /\ resizePending = <<>>
    /\ resizeTimer = 2

\* C15: every value the program writes under the theme key is "light" or
\* "dark": once it has written, whatever was stored at first, the stored
\* value is one of the two or absent, after any toggles, system changes
\* and touch events.
C15_OnlyThemesStored ==
    /\ wrote \subseteq Themes
    /\ wrote # {} => stored \in Themes \cup {NoValue}

\* Both values have been written and a double tap has removed the last.
C15_Witness ==
    /\ wrote = Themes
    /\ stored = NoValue
    /\ lastOp = "touchend"

\* C17: each tracked image counts down once at most: the countdown never
\* goes below zero and never reaches zero (running the image-completion
\* equalization) while a tracked image has fired neither "load" nor
\* "error", also when an image fires "load" and later "error".
C17_CountdownOnce ==
    /\ remaining >= 0
    /\ remaining = 0 => Unsettled = {}

\* C19: once the theme block has run, data-theme is "light" or "dark" and
\* aria-pressed is "true" exactly when data-theme is "dark", after any
\* toggles, system changes, touch events and storage failures.
C19_AriaMirrorsTheme ==
    themeReady =>
        /\ dataTheme \in Themes
        /\ ariaPressed \in {"true", "false"}
        /\ ariaPressed = "true" <=> dataTheme = "dark"

\* A toggle to dark whose write threw and left the handler uncaught.
C19_Witness ==
    /\ themeReady
    /\ lastOp = "click"
    /\ escaped
    /\ dataTheme = "dark"
    /\ ariaPressed = "true"

\* C20: a toggle made while reduced motion is reported never adds
\* "is-transitioning"; at most one pulse-removal timeout is pending at any
\* instant; the class, once added, is removed again.
C20_PulseEnds ==
    /\ [](Len(pulsePending) <= 1)
    /\ [][(Click /\ reducedMotion) => transitioning' = transitioning]_vars
    /\ (transitioning ~> ~transitioning)

\* A second pulse replaced the timeout of the first and was removed, and a
\* toggle under reduced motion left the track without the class.
C20_Witness ==
    /\ lastOp = "click"
    /\ reducedMotion
    /\ ~transitioning
    /\ pulseTimer = 2
    /\ pulsePending = <<>>

====
